---- MODULE Spec2Model ----
(***************************************************************************)
(* Model of the financial forecasting page (src/app/page.tsx): the input   *)
(* state of FinancialForecastingApp, its four effects, the projection loop *)
(* and the milestone detector.                                             *)
(*                                                                         *)
(* Text (a title, an amount, a period key, a URL value) is a sequence of   *)
(* one-character strings, so that parseFloat and the URL encoding are     *)
(* modelled by what they do to the characters.                            *)
(* Numbers are integers: every input text of the model denotes an integer  *)
(* and every APR of the model is a multiple of 1200, which makes the       *)
(* monthly rate APR/12/100 an integer and all of the arithmetic exact.     *)
(***************************************************************************)
EXTENDS Integers, Sequences, FiniteSets, TLC

VARIABLES
    title,            \* useState("")  page.tsx:63
    startingAmount,   \* useState("")  page.tsx:64
    monthlyRevenue,   \* useState("")  page.tsx:65
    monthlyExpenses,  \* useState("")  page.tsx:66
    revenueAPR,       \* useState("")  page.tsx:67
    expenseAPR,       \* useState("")  page.tsx:68
    selectedPeriod,   \* useState("1yr") page.tsx:69
    forecastData,     \* useState([])  page.tsx:70
    isCopied,         \* useState(false) page.tsx:71
    isSharedView,     \* useState(false) page.tsx:72
    searchParams,     \* useSearchParams(): the query of the current URL
    rendered,         \* the values closed over by the render being committed
    pending,          \* effects of that render that have not run yet
    navigation,       \* router.replace calls that have not landed yet
    navigationLimit,  \* how many of them the user types ahead of
    documentTitle,    \* document.title
    today,            \* the wall-clock date, read by new Date()
    clipboard,        \* the text on the system clipboard
    writing,          \* handleShare calls waiting on clipboard.writeText
    timers,           \* setTimeout callbacks that have not fired yet
    toast             \* the message of the last toast raised

vars == <<title, startingAmount, monthlyRevenue, monthlyExpenses, revenueAPR,
          expenseAPR, selectedPeriod, forecastData, isCopied, isSharedView,
          searchParams, rendered, pending, navigation, navigationLimit,
          documentTitle, today, clipboard, writing, timers, toast>>

\* What only the Share button and its callbacks touch.
sharing == <<clipboard, writing, timers, toast>>

inputs == <<title, startingAmount, monthlyRevenue, monthlyExpenses, revenueAPR,
            expenseAPR, selectedPeriod>>

-----------------------------------------------------------------------------
(* Bounds of the model *)

\* Longest horizon for which a growing monthly amount (factor > 1) is
\* projected; beyond it the sums leave TLC's integer range.
MaxGrowthMonths == 12

\* Number of URL writes a hurried user lets be in flight at once.
MaxNavigation == 2

\* Number of passes after which the evaluation of the projection loop is cut
\* off; it exceeds the passes of the longest period.
MaxPasses == 2048

-----------------------------------------------------------------------------
(* Program constants *)

TIME_PERIODS ==
    << [value |-> <<"3", "m">>,    months |-> 3],
       [value |-> <<"6", "m">>,    months |-> 6],
       [value |-> <<"1", "y", "r">>,   months |-> 12],
       [value |-> <<"3", "y", "r">>,   months |-> 36],
       [value |-> <<"5", "y", "r">>,   months |-> 60],
       [value |-> <<"1", "0", "y", "r">>,  months |-> 120],
       [value |-> <<"2", "5", "y", "r">>,  months |-> 300],
       [value |-> <<"5", "0", "y", "r">>,  months |-> 600],
       [value |-> <<"1", "0", "0", "y", "r">>, months |-> 1200] >>

PeriodKeys == { TIME_PERIODS[i].value : i \in 1..Len(TIME_PERIODS) }

\* TIME_PERIODS.find((p) => p.value === key): the first match, or NoPeriod.
NoPeriod == [value |-> <<>>, months |-> -1]

FindPeriod(key) ==
    LET hits == { i \in 1..Len(TIME_PERIODS) : TIME_PERIODS[i].value = key }
    IN  IF hits = {} THEN NoPeriod
        ELSE TIME_PERIODS[CHOOSE i \in hits : \A j \in hits : i <= j]

DefaultDocumentTitle ==
    <<"F", "i", "n", "a", "n", "c", "i", "a", "l", " ",
      "F", "o", "r", "e", "c", "a", "s", "t", "i", "n", "g", " ",
      "L", "a", "b">>

\* The toasts of handleShare; NoToast before any was raised.
NoToast      == ""
CopiedToast  == "Copied URL to clipboard!"
FailedToast  == "Failed to copy URL"

\* window.location.origin followed by window.location.pathname.
Location == <<"h", "t", "t", "p", ":", "/", "/", "l", "a", "b", "/">>

\* Timers of handleShare that may be waiting at once.
MaxTimers == 2

-----------------------------------------------------------------------------
(* parseFloat and the `|| 0` default *)

Digits == <<"0", "1", "2", "3", "4", "5", "6", "7", "8", "9">>

IsDigit(c) == \E d \in 1..10 : Digits[d] = c

DigitValue(c) == (CHOOSE d \in 1..10 : Digits[d] = c) - 1

NaN == [isNaN |-> TRUE, value |-> 0]

Number(n) == [isNaN |-> FALSE, value |-> n]

\* Index of the first character of s at or after i that is not a blank.
RECURSIVE SkipBlanks(_, _)
SkipBlanks(s, i) ==
    IF i <= Len(s) /\ s[i] = " " THEN SkipBlanks(s, i + 1) ELSE i

\* Number of consecutive digits of s starting at position i.
RECURSIVE DigitRun(_, _)
DigitRun(s, i) ==
    IF i <= Len(s) /\ IsDigit(s[i]) THEN 1 + DigitRun(s, i + 1) ELSE 0

\* Value of the n digits of s that start at position i.
RECURSIVE DigitsValue(_, _, _)
DigitsValue(s, i, n) ==
    IF n = 0 THEN 0
    ELSE 10 * DigitsValue(s, i, n - 1) + DigitValue(s[i + n - 1])

\* parseFloat(s): leading blanks are skipped, then an optional sign and the
\* longest run of digits are read; whatever follows is ignored; NaN when no
\* digit is found.  (No text of the model carries a decimal point or an
\* exponent.)
parseFloat(s) ==
    LET start    == SkipBlanks(s, 1)
        hasSign  == start <= Len(s) /\ s[start] \in {"-", "+"}
        negative == hasSign /\ s[start] = "-"
        first    == IF hasSign THEN start + 1 ELSE start
        n        == DigitRun(s, first)
        magnitude == DigitsValue(s, first, n)
    IN  IF n = 0 THEN NaN
        ELSE Number(IF negative THEN 0 - magnitude ELSE magnitude)

\* `x || 1`: a default of one instead of zero.
OrOne(x) == IF x.isNaN \/ x.value = 0 THEN 1 ELSE x.value

\* `x || 0` for a number x: NaN and 0 are falsy.
OrZero(x) == IF x.isNaN \/ x.value = 0 THEN 0 ELSE x.value

\* (parseFloat(apr) || 0) / 12 / 100
MonthlyRate(apr) == (OrZero(parseFloat(apr)) \div 12) \div 100

-----------------------------------------------------------------------------
(* new Date(), Date.prototype.setMonth and the en-US month/year label *)

IsLeapYear(y) == (y % 4 = 0) /\ ((y % 100 # 0) \/ (y % 400 = 0))

\* Days of month m (0 = January) of year y.
DaysInMonth(y, m) ==
    IF m = 1 THEN (IF IsLeapYear(y) THEN 29 ELSE 28)
    ELSE IF m \in {3, 5, 8, 10} THEN 30
    ELSE 31

\* date.setMonth(date.getMonth() + month): the month and the year are
\* normalised, the day of the month is kept, and a day the target month does
\* not have carries over into the month after it.
SetMonth(date, month) ==
    LET total == date.month + month
        y     == date.year + (total \div 12)
        m     == total % 12
        dim   == DaysInMonth(y, m)
    IN  IF date.day <= dim
        THEN [year |-> y, month |-> m, day |-> date.day]
        ELSE [year  |-> IF m = 11 THEN y + 1 ELSE y,
              month |-> (m + 1) % 12,
              day   |-> date.day - dim]

\* toLocaleDateString("en-US", {year: "numeric", month: "short"}): the label
\* names the month and the year and drops the day.
DateLabel(date) == [year |-> date.year, month |-> date.month]

-----------------------------------------------------------------------------
(* The forecast effect: the projection loop *)

\* ForecastRuns asking for texts that parse instead of non-empty texts.
ForecastRunsWhenParsed(r) ==
    /\ ~parseFloat(r.monthlyRevenue).isNaN
    /\ ~parseFloat(r.monthlyExpenses).isNaN
    /\ FindPeriod(r.selectedPeriod) # NoPeriod

\* `if (monthlyRevenue && monthlyExpenses)` and then `if (period)`: the effect
\* publishes a series only when both required texts are non-empty and the
\* selected period is one of TIME_PERIODS.
ForecastRuns(r) ==
    /\ r.monthlyRevenue # <<>>
    /\ r.monthlyExpenses # <<>>
    /\ FindPeriod(r.selectedPeriod) # NoPeriod

\* LoopBody with the cumulative expenses stored as they are, not negated.
LoopBodyPositiveExpenses(env, loop) ==
    LET month == loop.month
        currentMonthlyRevenue ==
            IF month > 0
            THEN loop.currentMonthlyRevenue * (1 + env.revenueInterestRate)
            ELSE loop.currentMonthlyRevenue
        currentMonthlyExpenses ==
            IF month > 0
            THEN loop.currentMonthlyExpenses * (1 + env.expenseInterestRate)
            ELSE loop.currentMonthlyExpenses
        cumulativeRevenue  == loop.cumulativeRevenue + currentMonthlyRevenue
        cumulativeExpenses == loop.cumulativeExpenses + currentMonthlyExpenses
        cumulativeProfit   == cumulativeRevenue - cumulativeExpenses
    IN  [month                  |-> month + 1,
         cumulativeRevenue      |-> cumulativeRevenue,
         cumulativeExpenses     |-> cumulativeExpenses,
         currentMonthlyRevenue  |-> currentMonthlyRevenue,
         currentMonthlyExpenses |-> currentMonthlyExpenses,
         data |-> Append(loop.data,
                     [month    |-> month,
                      date     |-> DateLabel(SetMonth(env.now, month)),
                      revenue  |-> cumulativeRevenue,
                      expenses |-> cumulativeExpenses,
                      profit   |-> cumulativeProfit,
                      netWorth |-> env.initialAmount + cumulativeProfit])]

\* LoopBody with the growth applied in every pass, month 0 included.
LoopBodyCompoundsAtZero(env, loop) ==
    LET month == loop.month
        currentMonthlyRevenue ==
            loop.currentMonthlyRevenue * (1 + env.revenueInterestRate)
        currentMonthlyExpenses ==
            loop.currentMonthlyExpenses * (1 + env.expenseInterestRate)
        cumulativeRevenue  == loop.cumulativeRevenue + currentMonthlyRevenue
        cumulativeExpenses == loop.cumulativeExpenses + currentMonthlyExpenses
        cumulativeProfit   == cumulativeRevenue - cumulativeExpenses
    IN  [month                  |-> month + 1,
         cumulativeRevenue      |-> cumulativeRevenue,
         cumulativeExpenses     |-> cumulativeExpenses,
         currentMonthlyRevenue  |-> currentMonthlyRevenue,
         currentMonthlyExpenses |-> currentMonthlyExpenses,
         data |-> Append(loop.data,
                     [month    |-> month,
                      date     |-> DateLabel(SetMonth(env.now, month)),
                      revenue  |-> cumulativeRevenue,
                      expenses |-> 0 - cumulativeExpenses,
                      profit   |-> cumulativeProfit,
                      netWorth |-> env.initialAmount + cumulativeProfit])]

\* One pass of the body of
\* `for (let month = 0; month <= period.months; month++)`, followed by the
\* increment.  env holds the constants of the loop, loop its variables.
\* LoopBody growing the monthly amounts by the factor rate - 1.
LoopBodyRateMinusOne(env, loop) ==
    LET month == loop.month
        currentMonthlyRevenue ==
            IF month > 0
            THEN loop.currentMonthlyRevenue * (env.revenueInterestRate - 1)
            ELSE loop.currentMonthlyRevenue
        currentMonthlyExpenses ==
            IF month > 0
            THEN loop.currentMonthlyExpenses * (env.expenseInterestRate - 1)
            ELSE loop.currentMonthlyExpenses
        cumulativeRevenue  == loop.cumulativeRevenue + currentMonthlyRevenue
        cumulativeExpenses == loop.cumulativeExpenses + currentMonthlyExpenses
        date               == SetMonth(env.now, month)
        cumulativeProfit   == cumulativeRevenue - cumulativeExpenses
        currentNetWorth    == env.initialAmount + cumulativeProfit
        point == [month    |-> month,
                  date     |-> DateLabel(date),
                  revenue  |-> cumulativeRevenue,
                  expenses |-> 0 - cumulativeExpenses,
                  profit   |-> cumulativeProfit,
                  netWorth |-> currentNetWorth]
    IN  [month                  |-> month + 1,
         cumulativeRevenue      |-> cumulativeRevenue,
         cumulativeExpenses     |-> cumulativeExpenses,
         currentMonthlyRevenue  |-> currentMonthlyRevenue,
         currentMonthlyExpenses |-> currentMonthlyExpenses,
         data                   |-> Append(loop.data, point)]

\* LoopBody of a loop that does not advance month.
LoopBodyStuck(env, loop) ==
    LET month == loop.month
        currentMonthlyRevenue ==
            IF month > 0
            THEN loop.currentMonthlyRevenue * (1 + env.revenueInterestRate)
            ELSE loop.currentMonthlyRevenue
        currentMonthlyExpenses ==
            IF month > 0
            THEN loop.currentMonthlyExpenses * (1 + env.expenseInterestRate)
            ELSE loop.currentMonthlyExpenses
        cumulativeRevenue  == loop.cumulativeRevenue + currentMonthlyRevenue
        cumulativeExpenses == loop.cumulativeExpenses + currentMonthlyExpenses
        date               == SetMonth(env.now, month)
        cumulativeProfit   == cumulativeRevenue - cumulativeExpenses
        currentNetWorth    == env.initialAmount + cumulativeProfit
        point == [month    |-> month,
                  date     |-> DateLabel(date),
                  revenue  |-> cumulativeRevenue,
                  expenses |-> 0 - cumulativeExpenses,
                  profit   |-> cumulativeProfit,
                  netWorth |-> currentNetWorth]
    IN  [month                  |-> month,
         cumulativeRevenue      |-> cumulativeRevenue,
         cumulativeExpenses     |-> cumulativeExpenses,
         currentMonthlyRevenue  |-> currentMonthlyRevenue,
         currentMonthlyExpenses |-> currentMonthlyExpenses,
         data                   |-> Append(loop.data, point)]

LoopBody(env, loop) ==
    LET month == loop.month
        currentMonthlyRevenue ==
            IF month > 0
            THEN loop.currentMonthlyRevenue * (1 + env.revenueInterestRate)
            ELSE loop.currentMonthlyRevenue
        currentMonthlyExpenses ==
            IF month > 0
            THEN loop.currentMonthlyExpenses * (1 + env.expenseInterestRate)
            ELSE loop.currentMonthlyExpenses
        cumulativeRevenue  == loop.cumulativeRevenue + currentMonthlyRevenue
        cumulativeExpenses == loop.cumulativeExpenses + currentMonthlyExpenses
        date               == SetMonth(env.now, month)
        cumulativeProfit   == cumulativeRevenue - cumulativeExpenses
        currentNetWorth    == env.initialAmount + cumulativeProfit
        point == [month    |-> month,
                  date     |-> DateLabel(date),
                  revenue  |-> cumulativeRevenue,
                  expenses |-> 0 - cumulativeExpenses,
                  profit   |-> cumulativeProfit,
                  netWorth |-> currentNetWorth]
    IN  [month                  |-> month + 1,
         cumulativeRevenue      |-> cumulativeRevenue,
         cumulativeExpenses     |-> cumulativeExpenses,
         currentMonthlyRevenue  |-> currentMonthlyRevenue,
         currentMonthlyExpenses |-> currentMonthlyExpenses,
         data                   |-> Append(loop.data, point)]

\* ForecastLoop with the loop condition month < period.months.
RECURSIVE ForecastLoopExclusive(_, _, _)
ForecastLoopExclusive(n, env, loop) ==
    IF n = 0 \/ ~(loop.month < env.months) THEN loop
    ELSE IF n = 1 THEN LoopBody(env, loop)
    ELSE ForecastLoopExclusive(n - (n \div 2), env,
                               ForecastLoopExclusive(n \div 2, env, loop))

\* The loop, run for at most n passes: a pass is made while
\* month <= period.months.  The n passes are made as two halves, one after
\* the other, so that evaluating them nests only to the logarithm of n.
RECURSIVE ForecastLoop(_, _, _)
ForecastLoop(n, env, loop) ==
    IF n = 0 \/ ~(loop.month <= env.months) THEN loop
    ELSE IF n = 1 THEN LoopBody(env, loop)
    ELSE ForecastLoop(n - (n \div 2), env, ForecastLoop(n \div 2, env, loop))

\* Forecast with the running totals starting at the base figures, not at 0.
ForecastSeeded(r, now) ==
    LET baseRevenue   == OrZero(parseFloat(r.monthlyRevenue))
        baseExpenses  == OrZero(parseFloat(r.monthlyExpenses))
        period        == FindPeriod(r.selectedPeriod)
    IN  ForecastLoop(MaxPasses,
            [months              |-> period.months,
             initialAmount       |-> OrZero(parseFloat(r.startingAmount)),
             revenueInterestRate |-> MonthlyRate(r.revenueAPR),
             expenseInterestRate |-> MonthlyRate(r.expenseAPR),
             now                 |-> now],
            [month                  |-> 0,
             cumulativeRevenue      |-> baseRevenue,
             cumulativeExpenses     |-> baseExpenses,
             currentMonthlyRevenue  |-> baseRevenue,
             currentMonthlyExpenses |-> baseExpenses,
             data                   |-> <<>>]).data

\* The loop run to its end on the input texts r on the date now: the state
\* of its variables when it is left.
LoopRun(r, now) ==
    LET baseRevenue   == OrZero(parseFloat(r.monthlyRevenue))
        baseExpenses  == OrZero(parseFloat(r.monthlyExpenses))
        initialAmount == OrZero(parseFloat(r.startingAmount))
        period        == FindPeriod(r.selectedPeriod)
    IN  ForecastLoop(MaxPasses,
            [months              |-> period.months,
             initialAmount       |-> initialAmount,
             revenueInterestRate |-> MonthlyRate(r.revenueAPR),
             expenseInterestRate |-> MonthlyRate(r.expenseAPR),
             now                 |-> now],
            [month                  |-> 0,
             cumulativeRevenue      |-> 0,
             cumulativeExpenses     |-> 0,
             currentMonthlyRevenue  |-> baseRevenue,
             currentMonthlyExpenses |-> baseExpenses,
             data                   |-> <<>>])

\* The series the effect builds from the input texts r on the date now.
Forecast(r, now) == LoopRun(r, now).data

-----------------------------------------------------------------------------
(* The milestone detector *)

NoDate == [year |-> 0, month |-> -1]

NoMilestone == [type |-> "null", date |-> NoDate]

\* FirstIndex scanning from the end: the last of the positions.
LastIndex(hits) ==
    IF hits = {} THEN 0 ELSE CHOOSE i \in hits : \A j \in hits : i >= j

\* `for (let i = 0; i < forecastData.length; i++) if (...) return`: the first
\* of the positions hits at which the test of the scan holds, 0 when none.
FirstIndex(hits) ==
    IF hits = {} THEN 0 ELSE CHOOSE i \in hits : \A j \in hits : i <= j

\* calculateMilestoneDate with the trend test netWorth >= initialAmount.
calculateMilestoneDateWeakTrend(data, startingText) ==
    IF Len(data) = 0 THEN NoMilestone
    ELSE
        LET initialAmount   == OrZero(parseFloat(startingText))
            isPositiveTrend == data[Len(data)].netWorth >= initialAmount
            up   == FirstIndex({ i \in 1..Len(data) : data[i].netWorth >= 0 })
            down == FirstIndex({ i \in 1..Len(data) : data[i].netWorth <= 0 })
        IN  IF isPositiveTrend
            THEN IF initialAmount >= 0
                 THEN [type |-> "positive", date |-> NoDate]
                 ELSE [type |-> "breakEven",
                       date |-> IF up = 0 THEN NoDate ELSE data[up].date]
            ELSE IF initialAmount <= 0
                 THEN [type |-> "negative", date |-> NoDate]
                 ELSE [type |-> "runwayEnded",
                       date |-> IF down = 0 THEN NoDate ELSE data[down].date]

\* calculateMilestoneDate with the break-even scan testing netWorth > 0.
calculateMilestoneDateStrictScan(data, startingText) ==
    IF Len(data) = 0 THEN NoMilestone
    ELSE
        LET initialAmount   == OrZero(parseFloat(startingText))
            isPositiveTrend == data[Len(data)].netWorth > initialAmount
            up   == FirstIndex({ i \in 1..Len(data) : data[i].netWorth > 0 })
            down == FirstIndex({ i \in 1..Len(data) : data[i].netWorth <= 0 })
        IN  IF isPositiveTrend
            THEN IF initialAmount >= 0
                 THEN [type |-> "positive", date |-> NoDate]
                 ELSE [type |-> "breakEven",
                       date |-> IF up = 0 THEN NoDate ELSE data[up].date]
            ELSE IF initialAmount <= 0
                 THEN [type |-> "negative", date |-> NoDate]
                 ELSE [type |-> "runwayEnded",
                       date |-> IF down = 0 THEN NoDate ELSE data[down].date]

\* calculateMilestoneDate reporting "positive" for every rising trend,
\* whatever the sign of the starting amount.
calculateMilestoneDateIgnoresSign(data, startingText) ==
    IF Len(data) = 0 THEN NoMilestone
    ELSE
        LET initialAmount   == OrZero(parseFloat(startingText))
            isPositiveTrend == data[Len(data)].netWorth > initialAmount
            down == FirstIndex({ i \in 1..Len(data) : data[i].netWorth <= 0 })
        IN  IF isPositiveTrend
            THEN [type |-> "positive", date |-> NoDate]
            ELSE IF initialAmount <= 0
                 THEN [type |-> "negative", date |-> NoDate]
                 ELSE [type |-> "runwayEnded",
                       date |-> IF down = 0 THEN NoDate ELSE data[down].date]

\* calculateMilestoneDate dating the "negative" result like "runwayEnded".
calculateMilestoneDateDatedNegative(data, startingText) ==
    IF Len(data) = 0 THEN NoMilestone
    ELSE
        LET initialAmount   == OrZero(parseFloat(startingText))
            isPositiveTrend == data[Len(data)].netWorth > initialAmount
            up   == FirstIndex({ i \in 1..Len(data) : data[i].netWorth >= 0 })
            down == FirstIndex({ i \in 1..Len(data) : data[i].netWorth <= 0 })
        IN  IF isPositiveTrend
            THEN IF initialAmount >= 0
                 THEN [type |-> "positive", date |-> NoDate]
                 ELSE [type |-> "breakEven",
                       date |-> IF up = 0 THEN NoDate ELSE data[up].date]
            ELSE [type |-> IF initialAmount <= 0 THEN "negative"
                           ELSE "runwayEnded",
                  date |-> IF down = 0 THEN NoDate ELSE data[down].date]

calculateMilestoneDate(data, startingText) ==
    IF Len(data) = 0 THEN NoMilestone
    ELSE
        LET initialAmount   == OrZero(parseFloat(startingText))
            finalProjection == data[Len(data)]
            isPositiveTrend == finalProjection.netWorth > initialAmount
            up   == FirstIndex({ i \in 1..Len(data) : data[i].netWorth >= 0 })
            down == FirstIndex({ i \in 1..Len(data) : data[i].netWorth <= 0 })
        IN  IF isPositiveTrend
            THEN IF initialAmount >= 0
                 THEN [type |-> "positive", date |-> NoDate]
                 ELSE [type |-> "breakEven",
                       date |-> IF up = 0 THEN NoDate ELSE data[up].date]
            ELSE IF initialAmount <= 0
                 THEN [type |-> "negative", date |-> NoDate]
                 ELSE [type |-> "runwayEnded",
                       date |-> IF down = 0 THEN NoDate ELSE data[down].date]

\* const milestoneInfo = calculateMilestoneDate(), evaluated by every render.
milestoneInfo == calculateMilestoneDate(forecastData, startingAmount)

\* `forecastData.length === 0 &&` the instructions card; otherwise the chart.
PlaceholderShown == Len(forecastData) = 0

-----------------------------------------------------------------------------
(* React: renders, closures and the order of the effects *)

\* The state a render closes over, as seen by the effects it schedules.
Live ==
    [title           |-> title,
     startingAmount  |-> startingAmount,
     monthlyRevenue  |-> monthlyRevenue,
     monthlyExpenses |-> monthlyExpenses,
     revenueAPR      |-> revenueAPR,
     expenseAPR      |-> expenseAPR,
     selectedPeriod  |-> selectedPeriod,
     isSharedView    |-> isSharedView,
     searchParams    |-> searchParams]

\* The state of a session before any effect has run: the useState defaults.
FreshSession ==
    [title           |-> <<>>,
     startingAmount  |-> <<>>,
     monthlyRevenue  |-> <<>>,
     monthlyExpenses |-> <<>>,
     revenueAPR      |-> <<>>,
     expenseAPR      |-> <<>>,
     selectedPeriod  |-> <<"1", "y", "r">>,
     isSharedView    |-> FALSE]

\* The dependency array of each effect, in the order the effects are declared.
EffectOrder == <<"load", "write", "title", "forecast">>

Deps(effect, r) ==
    CASE effect = "load"     -> <<r.searchParams>>
      [] effect = "write"    -> <<r.title, r.startingAmount, r.monthlyRevenue,
                                  r.monthlyExpenses, r.revenueAPR, r.expenseAPR,
                                  r.selectedPeriod>>
      [] effect = "title"    -> <<r.isSharedView, r.title>>
      [] effect = "forecast" -> <<r.monthlyRevenue, r.monthlyExpenses,
                                  r.revenueAPR, r.expenseAPR, r.selectedPeriod,
                                  r.startingAmount>>

AllEffects == { EffectOrder[i] : i \in 1..Len(EffectOrder) }

\* An effect runs when it is scheduled and every effect declared before it
\* has run.
IsNext(effect) ==
    /\ effect \in pending
    /\ \A i, j \in 1..Len(EffectOrder) :
          (EffectOrder[j] = effect /\ i < j) => EffectOrder[i] \notin pending

\* Nothing is scheduled and what is on screen was rendered from the current
\* state: the page waits for the next event.
Idle == pending = {} /\ rendered = Live

\* A state update is followed by a render, which schedules the effects whose
\* dependencies differ from those of the previous render.
Render ==
    /\ pending = {}
    /\ rendered # Live
    /\ rendered' = Live
    /\ pending' = { e \in AllEffects : Deps(e, rendered) # Deps(e, Live) }
    /\ UNCHANGED <<inputs, forecastData, isCopied, isSharedView, searchParams,
                   navigation, navigationLimit, documentTitle, today,
                   sharing>>

\* The query a handler builds with URLSearchParams.set: a key is set only for
\* a non-empty value.  An absent key and an empty value read the same to every
\* test the page makes, so both are the empty text here.
NoParams ==
    [title |-> <<>>, startingAmount |-> <<>>, revenue |-> <<>>,
     income |-> <<>>, expenses |-> <<>>, revenueAPR |-> <<>>,
     expenseAPR |-> <<>>, period |-> <<>>, shared |-> <<>>]

BuildParams(r) ==
    [NoParams EXCEPT !.title          = r.title,
                     !.startingAmount = r.startingAmount,
                     !.revenue        = r.monthlyRevenue,
                     !.expenses       = r.monthlyExpenses,
                     !.revenueAPR     = r.revenueAPR,
                     !.expenseAPR     = r.expenseAPR,
                     !.period         = r.selectedPeriod]

\* The keys in the order the handlers set them.  A key is one element of a
\* query string; the text of a value is spelled character by character.
KeyOrder ==
    <<"title", "startingAmount", "revenue", "expenses", "revenueAPR",
      "expenseAPR", "period", "shared">>

\* params.toString(): the characters URLSearchParams writes as "%XX".  A blank
\* is written as "+"; letters, digits and "-" are written as they are.
PercentCode ==
    [c \in {"+", "&", "=", "%", "?"} |->
        CASE c = "+" -> <<"2", "B">>
          [] c = "&" -> <<"2", "6">>
          [] c = "=" -> <<"3", "D">>
          [] c = "%" -> <<"2", "5">>
          [] c = "?" -> <<"3", "F">>]

\* EncodeChar that escapes the blank only.
EncodeCharBlankOnly(c) == IF c = " " THEN <<"+">> ELSE <<c>>

EncodeChar(c) ==
    IF c = " " THEN <<"+">>
    ELSE IF c \in DOMAIN PercentCode THEN <<"%">> \o PercentCode[c]
    ELSE <<c>>

RECURSIVE Encode(_)
Encode(text) ==
    IF text = <<>> THEN <<>> ELSE EncodeChar(Head(text)) \o Encode(Tail(text))

RECURSIVE ToStringFrom(_, _, _)
ToStringFrom(k, params, written) ==
    IF k > Len(KeyOrder) THEN written
    ELSE LET key   == KeyOrder[k]
             value == params[key]
             pair  == <<key, "=">> \o Encode(value)
         IN  IF value = <<>> THEN ToStringFrom(k + 1, params, written)
             ELSE IF written = <<>> THEN ToStringFrom(k + 1, params, pair)
             ELSE ToStringFrom(k + 1, params, written \o <<"&">> \o pair)

ParamsToString(params) == ToStringFrom(1, params, <<>>)

\* The address handed to router.replace: `?${params.toString()}`.
Href(params) == <<"?">> \o ParamsToString(params)

\* useSearchParams() on an address: the query is cut at "&", each piece at
\* its first "=", and the value has "+" and "%XX" decoded.
RECURSIVE Decode(_)
Decode(chars) ==
    IF chars = <<>> THEN <<>>
    ELSE IF Head(chars) = "+" THEN <<" ">> \o Decode(Tail(chars))
    ELSE IF /\ Head(chars) = "%"
            /\ Len(chars) >= 3
            /\ \E c \in DOMAIN PercentCode :
                  PercentCode[c] = <<chars[2], chars[3]>>
         THEN LET c == CHOOSE c \in DOMAIN PercentCode :
                          PercentCode[c] = <<chars[2], chars[3]>>
              IN  <<c>> \o Decode(SubSeq(chars, 4, Len(chars)))
    ELSE <<Head(chars)>> \o Decode(Tail(chars))

RECURSIVE Pieces(_, _, _)
Pieces(query, piece, done) ==
    IF query = <<>> THEN Append(done, piece)
    ELSE IF Head(query) = "&"
         THEN Pieces(Tail(query), <<>>, Append(done, piece))
    ELSE Pieces(Tail(query), Append(piece, Head(query)), done)

\* The pieces of the query of an address, without its leading "?".
PiecesOf(href) == Pieces(Tail(href), <<>>, <<>>)

\* searchParams.get(key): the value of the first piece named key, or null,
\* which reads as the empty text.
Get(pieces, key) ==
    LET hits == { i \in 1..Len(pieces) :
                     pieces[i] # <<>> /\ pieces[i][1] = key }
    IN  IF hits = {} THEN <<>>
        ELSE LET piece == pieces[CHOOSE i \in hits : \A j \in hits : i <= j]
             IN  IF Len(piece) >= 2 /\ piece[2] = "="
                 THEN Decode(SubSeq(piece, 3, Len(piece)))
                 ELSE <<>>

SearchParamsOf(href) ==
    LET pieces == PiecesOf(href)
    IN  [title          |-> Get(pieces, "title"),
         startingAmount |-> Get(pieces, "startingAmount"),
         revenue        |-> Get(pieces, "revenue"),
         income         |-> Get(pieces, "income"),
         expenses       |-> Get(pieces, "expenses"),
         revenueAPR     |-> Get(pieces, "revenueAPR"),
         expenseAPR     |-> Get(pieces, "expenseAPR"),
         period         |-> Get(pieces, "period"),
         shared         |-> Get(pieces, "shared")]

\* The load effect without the "income" alias.
LoadedIgnoresIncome(s, p) ==
    [s EXCEPT
       !.title           = IF p.title # <<>> THEN p.title ELSE @,
       !.startingAmount  = IF p.startingAmount # <<>>
                           THEN p.startingAmount ELSE @,
       !.monthlyRevenue  = IF p.revenue # <<>> THEN p.revenue ELSE @,
       !.monthlyExpenses = IF p.expenses # <<>> THEN p.expenses ELSE @,
       !.revenueAPR      = IF p.revenueAPR # <<>> THEN p.revenueAPR ELSE @,
       !.expenseAPR      = IF p.expenseAPR # <<>> THEN p.expenseAPR ELSE @,
       !.selectedPeriod  = IF p.period # <<>> THEN p.period ELSE @,
       !.isSharedView    = IF p.shared = <<"t", "r", "u", "e">>
                           THEN TRUE ELSE @]

\* The load effect taking isSharedView from the URL: a URL without shared
\* leaves shared view.
LoadedSharedFollowsURL(s, p) ==
    LET urlRevenue == IF p.revenue # <<>> THEN p.revenue ELSE p.income
    IN  [s EXCEPT
           !.title           = IF p.title # <<>> THEN p.title ELSE @,
           !.startingAmount  = IF p.startingAmount # <<>>
                               THEN p.startingAmount ELSE @,
           !.monthlyRevenue  = IF urlRevenue # <<>> THEN urlRevenue ELSE @,
           !.monthlyExpenses = IF p.expenses # <<>> THEN p.expenses ELSE @,
           !.revenueAPR      = IF p.revenueAPR # <<>> THEN p.revenueAPR ELSE @,
           !.expenseAPR      = IF p.expenseAPR # <<>> THEN p.expenseAPR ELSE @,
           !.selectedPeriod  = IF p.period # <<>> THEN p.period ELSE @,
           !.isSharedView    = p.shared = <<"t", "r", "u", "e">>]

\* What the load effect leaves in the state s when the URL reads p: a setter
\* is called only for a non-empty parameter, and "income" stands in for a
\* missing "revenue".
Loaded(s, p) ==
    LET urlRevenue == IF p.revenue # <<>> THEN p.revenue ELSE p.income
    IN  [s EXCEPT
           !.title           = IF p.title # <<>> THEN p.title ELSE @,
           !.startingAmount  = IF p.startingAmount # <<>>
                               THEN p.startingAmount ELSE @,
           !.monthlyRevenue  = IF urlRevenue # <<>> THEN urlRevenue ELSE @,
           !.monthlyExpenses = IF p.expenses # <<>> THEN p.expenses ELSE @,
           !.revenueAPR      = IF p.revenueAPR # <<>> THEN p.revenueAPR ELSE @,
           !.expenseAPR      = IF p.expenseAPR # <<>> THEN p.expenseAPR ELSE @,
           !.selectedPeriod  = IF p.period # <<>> THEN p.period ELSE @,
           !.isSharedView    = IF p.shared = <<"t", "r", "u", "e">>
                               THEN TRUE ELSE @]

\* useEffect(..., [searchParams]): load state from the URL parameters.
LoadEffect ==
    /\ IsNext("load")
    /\ LET s == Loaded(Live, rendered.searchParams)
       IN  /\ title' = s.title
           /\ startingAmount' = s.startingAmount
           /\ monthlyRevenue' = s.monthlyRevenue
           /\ monthlyExpenses' = s.monthlyExpenses
           /\ revenueAPR' = s.revenueAPR
           /\ expenseAPR' = s.expenseAPR
           /\ selectedPeriod' = s.selectedPeriod
           /\ isSharedView' = s.isSharedView
    /\ pending' = pending \ {"load"}
    /\ UNCHANGED <<forecastData, isCopied, searchParams, rendered, navigation,
                   navigationLimit, documentTitle, today, sharing>>

\* useEffect(..., [title, ..., selectedPeriod, router]): write the state back
\* to the URL with router.replace, which lands later.
WriteEffect ==
    /\ IsNext("write")
    /\ navigation' = Append(navigation, Href(BuildParams(rendered)))
    /\ pending' = pending \ {"write"}
    /\ UNCHANGED <<inputs, forecastData, isCopied, isSharedView, searchParams,
                   rendered, navigationLimit, documentTitle, today, sharing>>

\* The title effect without its else branch: outside shared view the
\* document title is left as it is.
TitleEffectSharedOnly ==
    /\ IsNext("title")
    /\ documentTitle' =
          IF rendered.isSharedView /\ rendered.title # <<>> THEN rendered.title
          ELSE documentTitle
    /\ pending' = pending \ {"title"}
    /\ UNCHANGED <<inputs, forecastData, isCopied, isSharedView, searchParams,
                   rendered, navigation, navigationLimit, today, sharing>>

\* useEffect(..., [isSharedView, title]): the document title.
TitleEffect ==
    /\ IsNext("title")
    /\ documentTitle' =
          IF rendered.isSharedView /\ rendered.title # <<>> THEN rendered.title
          ELSE IF ~rendered.isSharedView THEN DefaultDocumentTitle
          ELSE documentTitle
    /\ pending' = pending \ {"title"}
    /\ UNCHANGED <<inputs, forecastData, isCopied, isSharedView, searchParams,
                   rendered, navigation, navigationLimit, today, sharing>>

\* The forecast effect falling back to the default period when the selected
\* one is not in TIME_PERIODS.
ForecastEffectResetsPeriod ==
    /\ IsNext("forecast")
    /\ forecastData' =
          IF ForecastRuns(rendered) THEN Forecast(rendered, today)
          ELSE forecastData
    /\ selectedPeriod' =
          IF FindPeriod(rendered.selectedPeriod) = NoPeriod
          THEN FreshSession.selectedPeriod ELSE selectedPeriod
    /\ pending' = pending \ {"forecast"}
    /\ UNCHANGED <<title, startingAmount, monthlyRevenue, monthlyExpenses,
                   revenueAPR, expenseAPR, isCopied, isSharedView,
                   searchParams, rendered, navigation, navigationLimit,
                   documentTitle, today, sharing>>

\* The forecast effect pushing onto the series on display instead of onto a
\* new array.
ForecastEffectAppends ==
    /\ IsNext("forecast")
    /\ forecastData' =
          IF ForecastRuns(rendered)
          THEN forecastData \o Forecast(rendered, today)
          ELSE forecastData
    /\ pending' = pending \ {"forecast"}
    /\ UNCHANGED <<inputs, isCopied, isSharedView, searchParams, rendered,
                   navigation, navigationLimit, documentTitle, today,
                   sharing>>

\* The forecast effect publishing the series while it is being built: any
\* prefix of it may be what is on display.
ForecastEffectStreams ==
    /\ IsNext("forecast")
    /\ \/ /\ ForecastRuns(rendered)
          /\ \E k \in 1..(FindPeriod(rendered.selectedPeriod).months + 1) :
                forecastData' = SubSeq(Forecast(rendered, today), 1, k)
       \/ /\ ~ForecastRuns(rendered)
          /\ forecastData' = forecastData
    /\ pending' = pending \ {"forecast"}
    /\ UNCHANGED <<inputs, isCopied, isSharedView, searchParams, rendered,
                   navigation, navigationLimit, documentTitle, today,
                   sharing>>

\* useEffect(..., [monthlyRevenue, ..., startingAmount]): compute the forecast.
ForecastEffect ==
    /\ IsNext("forecast")
    /\ forecastData' =
          IF ForecastRuns(rendered) THEN Forecast(rendered, today)
          ELSE forecastData
    /\ pending' = pending \ {"forecast"}
    /\ UNCHANGED <<inputs, isCopied, isSharedView, searchParams, rendered,
                   navigation, navigationLimit, documentTitle, today,
                   sharing>>

\* A router.replace lands: the URL, and with it searchParams, changes.
NavigationLands ==
    /\ Idle
    /\ navigation # <<>>
    /\ searchParams' = SearchParamsOf(Head(navigation))
    /\ navigation' = Tail(navigation)
    /\ UNCHANGED <<inputs, forecastData, isCopied, isSharedView, rendered,
                   pending, navigationLimit, documentTitle, today, sharing>>

\* A router.replace that is still in flight when a later one is issued may
\* be dropped by the router in favour of the later one.
NavigationSuperseded ==
    /\ Len(navigation) >= 2
    /\ navigation' = Tail(navigation)
    /\ UNCHANGED <<inputs, forecastData, isCopied, isSharedView, searchParams,
                   rendered, pending, navigationLimit, documentTitle, today,
                   sharing>>

-----------------------------------------------------------------------------
(* The user: the onChange handlers of the seven controls *)

\* What the user types.  A control of type "number" reports the empty text
\* for anything that is not a number, so a typed amount is a number or empty.
\* The title is free text.
TypedTitles   == {<<>>, <<"R", "&", "D", " ", "+", "5", "%", "=", "?">>}
TypedStarts   == {<<>>, <<"-", "9">>}
TypedRevenues == {<<>>, <<"5">>}
TypedExpenses == {<<>>, <<"7">>}
TypedAPRs     == {<<>>, <<"-", "1", "2", "0", "0">>}
TypedPeriods  == {<<"3", "m">>, <<"6", "m">>}

\* The user acts on what is on screen, and only while fewer than
\* navigationLimit URL writes are in flight and no Share is waiting on the
\* clipboard.
UserCanAct ==
    /\ Idle
    /\ Len(navigation) < navigationLimit
    /\ writing = <<>>

SetTitle ==
    /\ UserCanAct
    /\ \E v \in TypedTitles : v # title /\ title' = v
    /\ UNCHANGED <<startingAmount, monthlyRevenue, monthlyExpenses, revenueAPR,
                   expenseAPR, selectedPeriod, forecastData, isCopied,
                   isSharedView, searchParams, rendered, pending, navigation,
                   navigationLimit, documentTitle, today, sharing>>

SetStartingAmount ==
    /\ UserCanAct
    /\ \E v \in TypedStarts : v # startingAmount /\ startingAmount' = v
    /\ UNCHANGED <<title, monthlyRevenue, monthlyExpenses, revenueAPR,
                   expenseAPR, selectedPeriod, forecastData, isCopied,
                   isSharedView, searchParams, rendered, pending, navigation,
                   navigationLimit, documentTitle, today, sharing>>

SetMonthlyRevenue ==
    /\ UserCanAct
    /\ \E v \in TypedRevenues : v # monthlyRevenue /\ monthlyRevenue' = v
    /\ UNCHANGED <<title, startingAmount, monthlyExpenses, revenueAPR,
                   expenseAPR, selectedPeriod, forecastData, isCopied,
                   isSharedView, searchParams, rendered, pending, navigation,
                   navigationLimit, documentTitle, today, sharing>>

SetMonthlyExpenses ==
    /\ UserCanAct
    /\ \E v \in TypedExpenses : v # monthlyExpenses /\ monthlyExpenses' = v
    /\ UNCHANGED <<title, startingAmount, monthlyRevenue, revenueAPR,
                   expenseAPR, selectedPeriod, forecastData, isCopied,
                   isSharedView, searchParams, rendered, pending, navigation,
                   navigationLimit, documentTitle, today, sharing>>

SetRevenueAPR ==
    /\ UserCanAct
    /\ \E v \in TypedAPRs : v # revenueAPR /\ revenueAPR' = v
    /\ UNCHANGED <<title, startingAmount, monthlyRevenue, monthlyExpenses,
                   expenseAPR, selectedPeriod, forecastData, isCopied,
                   isSharedView, searchParams, rendered, pending, navigation,
                   navigationLimit, documentTitle, today, sharing>>

SetExpenseAPR ==
    /\ UserCanAct
    /\ \E v \in TypedAPRs : v # expenseAPR /\ expenseAPR' = v
    /\ UNCHANGED <<title, startingAmount, monthlyRevenue, monthlyExpenses,
                   revenueAPR, selectedPeriod, forecastData, isCopied,
                   isSharedView, searchParams, rendered, pending, navigation,
                   navigationLimit, documentTitle, today, sharing>>

SetSelectedPeriod ==
    /\ UserCanAct
    /\ \E v \in TypedPeriods : v # selectedPeriod /\ selectedPeriod' = v
    /\ UNCHANGED <<title, startingAmount, monthlyRevenue, monthlyExpenses,
                   revenueAPR, expenseAPR, forecastData, isCopied,
                   isSharedView, searchParams, rendered, pending, navigation,
                   navigationLimit, documentTitle, today, sharing>>

-----------------------------------------------------------------------------
(* The Share and Edit buttons of the chart card *)

\* The chart card is rendered only for a non-empty series; it shows Edit in
\* shared view and Share otherwise.
ChartShown == Len(forecastData) > 0

\* The query of handleShare without the shared key.
ShareParamsUnmarked(r) == BuildParams(r)

\* The query handleShare builds: the non-empty inputs and shared=true.
ShareParams(r) == [BuildParams(r) EXCEPT !.shared = <<"t", "r", "u", "e">>]

\* The URL handleShare copies.
ShareUrl(params) == Location \o Href(params)

\* handleShare up to its await: the query is built from the rendered state
\* and clipboard.writeText is called.
HandleShare ==
    /\ UserCanAct
    /\ ChartShown
    /\ ~rendered.isSharedView
    /\ timers < MaxTimers
    /\ writing' = Append(writing, ShareParams(rendered))
    /\ UNCHANGED <<inputs, forecastData, isCopied, isSharedView, searchParams,
                   rendered, pending, navigation, navigationLimit,
                   documentTitle, today, clipboard, timers, toast>>

\* clipboard.writeText resolves and handleShare runs on: setIsCopied(true),
\* the success toast, router.push of the shared query, and the timer.
ClipboardResolves ==
    /\ Idle
    /\ writing # <<>>
    /\ clipboard' = ShareUrl(Head(writing))
    /\ isCopied' = TRUE
    /\ toast' = CopiedToast
    /\ navigation' = Append(navigation, Href(Head(writing)))
    /\ timers' = timers + 1
    /\ writing' = Tail(writing)
    /\ UNCHANGED <<inputs, forecastData, isSharedView, searchParams, rendered,
                   pending, navigationLimit, documentTitle, today>>

\* clipboard.writeText rejects: the catch block raises the error toast.
ClipboardRejects ==
    /\ Idle
    /\ writing # <<>>
    /\ toast' = FailedToast
    /\ writing' = Tail(writing)
    /\ UNCHANGED <<inputs, forecastData, isCopied, isSharedView, searchParams,
                   rendered, pending, navigation, navigationLimit,
                   documentTitle, today, clipboard, timers>>

\* A timer of handleShare fires, two seconds after it was set.
TimerFires ==
    /\ Idle
    /\ timers > 0
    /\ isCopied' = FALSE
    /\ timers' = timers - 1
    /\ UNCHANGED <<inputs, forecastData, isSharedView, searchParams, rendered,
                   pending, navigation, navigationLimit, documentTitle, today,
                   clipboard, writing, toast>>

\* handleEdit: leave shared view and push the query without shared.
HandleEdit ==
    /\ UserCanAct
    /\ ChartShown
    /\ rendered.isSharedView
    /\ isSharedView' = FALSE
    /\ navigation' = Append(navigation, Href(BuildParams(rendered)))
    /\ UNCHANGED <<inputs, forecastData, isCopied, searchParams, rendered,
                   pending, navigationLimit, documentTitle, today, sharing>>

-----------------------------------------------------------------------------
(* The page: opened on some URL, then driven by the user *)

\* The queries the page is opened with.
OpenedURLs ==
    { NoParams,
      [NoParams EXCEPT !.revenue = <<"5">>, !.expenses = <<"3">>,
                       !.period = <<"3", "m">>],
      [NoParams EXCEPT !.income = <<"5">>, !.expenses = <<"7">>,
                       !.startingAmount = <<"4">>],
      [NoParams EXCEPT !.revenue = <<"5">>, !.income = <<"8">>,
                       !.expenses = <<"3">>, !.period = <<"2", "y", "r">>],
      [NoParams EXCEPT !.revenue = <<"x">>, !.expenses = <<"3">>,
                       !.title = <<"P", "l", "a", "n">>,
                       !.shared = <<"t", "r", "u", "e">>] }

\* The date the page is opened on.
OpenedOn == [year |-> 2026, month |-> 10, day |-> 5]

\* State after the first render of a session opened on searchParams: every
\* effect is scheduled.
Mounted ==
    /\ title = FreshSession.title
    /\ startingAmount = FreshSession.startingAmount
    /\ monthlyRevenue = FreshSession.monthlyRevenue
    /\ monthlyExpenses = FreshSession.monthlyExpenses
    /\ revenueAPR = FreshSession.revenueAPR
    /\ expenseAPR = FreshSession.expenseAPR
    /\ selectedPeriod = FreshSession.selectedPeriod
    /\ isSharedView = FreshSession.isSharedView
    /\ forecastData = <<>>
    /\ isCopied = FALSE
    /\ rendered = Live
    /\ pending = AllEffects
    /\ navigation = <<>>
    /\ documentTitle = DefaultDocumentTitle
    /\ clipboard = <<>>
    /\ writing = <<>>
    /\ timers = 0
    /\ toast = NoToast

\* The page with a user who lets the address settle before the next edit.
Init ==
    /\ searchParams \in OpenedURLs
    /\ Mounted
    /\ navigationLimit = 1
    /\ today = OpenedOn

Next ==
    \/ Render
    \/ LoadEffect
    \/ WriteEffect
    \/ TitleEffect
    \/ ForecastEffect
    \/ NavigationLands
    \/ NavigationSuperseded
    \/ SetTitle
    \/ SetStartingAmount
    \/ SetMonthlyRevenue
    \/ SetMonthlyExpenses
    \/ SetRevenueAPR
    \/ SetExpenseAPR
    \/ SetSelectedPeriod

Spec == Init /\ [][Next]_vars

\* The page opened without a query, with a user who edits the two required
\* amounts and the period while earlier URL writes are still in flight.
RaceInit ==
    /\ searchParams = NoParams
    /\ Mounted
    /\ navigationLimit = MaxNavigation
    /\ today = OpenedOn

RaceNext ==
    \/ Render
    \/ LoadEffect
    \/ WriteEffect
    \/ TitleEffect
    \/ ForecastEffect
    \/ NavigationLands
    \/ NavigationSuperseded
    \/ SetMonthlyRevenue
    \/ SetMonthlyExpenses
    \/ SetSelectedPeriod

RaceSpec == RaceInit /\ [][RaceNext]_vars

\* The queries of the links the page is opened from when it is shared.
LinkURLs ==
    { NoParams,
      [NoParams EXCEPT !.revenue = <<"5">>, !.expenses = <<"3">>,
                       !.shared = <<"t", "r", "u", "e">>],
      [NoParams EXCEPT !.revenue = <<"5">>, !.expenses = <<"3">>,
                       !.title = <<"P", "l", "a", "n">>,
                       !.shared = <<"t", "r", "u", "e">>] }

\* The page opened plainly or from a shared link, with a user who names the
\* forecast, enters the two required amounts, and shares and edits it.
ShareInit ==
    /\ searchParams \in LinkURLs
    /\ Mounted
    /\ navigationLimit = 1
    /\ today = OpenedOn

ShareNext ==
    \/ Render
    \/ LoadEffect
    \/ WriteEffect
    \/ TitleEffect
    \/ ForecastEffect
    \/ NavigationLands
    \/ NavigationSuperseded
    \/ SetTitle
    \/ SetMonthlyRevenue
    \/ SetMonthlyExpenses
    \/ HandleShare
    \/ ClipboardResolves
    \/ ClipboardRejects
    \/ TimerFires
    \/ HandleEdit

ShareSpec == ShareInit /\ [][ShareNext]_vars

-----------------------------------------------------------------------------
(* The projection on its own: one run of the forecast effect per input *)

StartTexts ==
    { <<>>, <<"0">>, <<"1", "0", "0", "0", "0">>,
      <<"-", "2", "0", "0", "0", "0">> }

RevenueTexts ==
    { <<>>, <<"1", "0", "0">>, <<"1", "0", "0", "0">>,
      <<"5", "0", "0", "0">>, <<"x">> }

ExpenseTexts ==
    { <<>>, <<"5", "0">>, <<"3", "0", "0", "0">>, <<"5", "0", "0", "0">> }

RevenueAPRTexts ==
    { <<>>, <<"0">>, <<"1", "2", "0", "0">>, <<"-", "1", "2", "0", "0">> }

ExpenseAPRTexts ==
    { <<>>, <<"1", "2", "0", "0">>, <<"-", "2", "4", "0", "0">> }

PeriodTexts == PeriodKeys \cup {<<"2", "y", "r">>}

\* The dates a forecast is computed on: a day every month has, the 31st of
\* January, and the 30th of December before a leap year.
Dates ==
    { [year |-> 2026, month |-> 10, day |-> 5],
      [year |-> 2025, month |-> 0, day |-> 31],
      [year |-> 2023, month |-> 11, day |-> 30] }

\* A monthly amount that grows in absolute value is projected over at most
\* MaxGrowthMonths months, which keeps every sum an integer TLC can hold.
Grows(apr) == MonthlyRate(apr) > 0 \/ MonthlyRate(apr) < -2

InRange(r) ==
    (Grows(r.revenueAPR) \/ Grows(r.expenseAPR))
        => FindPeriod(r.selectedPeriod).months <= MaxGrowthMonths

\* Texts that parseFloat cannot read, each next to one it can: a letter, a
\* bare sign, a letter before the digits, blanks only, and a word.
GarbledStarts      == { <<"x">>, <<"1", "0", "0", "0", "0">> }
GarbledRevenues    == { <<"-">>, <<"1", "0", "0", "0">> }
GarbledExpenses    == { <<"a", "5">>, <<"3", "0", "0", "0">> }
GarbledRevenueAPRs == { <<" ">>, <<"1", "2", "0", "0">> }
GarbledExpenseAPRs == { <<"N", "a", "N">>, <<"-", "1", "2", "0", "0">> }

EngineInit ==
    /\ title = <<>>
    /\ \/ /\ startingAmount \in StartTexts
          /\ monthlyRevenue \in RevenueTexts
          /\ monthlyExpenses \in ExpenseTexts
          /\ revenueAPR \in RevenueAPRTexts
          /\ expenseAPR \in ExpenseAPRTexts
       \/ /\ startingAmount \in GarbledStarts
          /\ monthlyRevenue \in GarbledRevenues
          /\ monthlyExpenses \in GarbledExpenses
          /\ revenueAPR \in GarbledRevenueAPRs
          /\ expenseAPR \in GarbledExpenseAPRs
    /\ selectedPeriod \in PeriodTexts
    /\ forecastData = <<>>
    /\ isCopied = FALSE
    /\ isSharedView = FALSE
    /\ searchParams = NoParams
    /\ rendered = Live
    /\ InRange(rendered)
    /\ pending = {"forecast"}
    /\ navigation = <<>>
    /\ navigationLimit = 1
    /\ documentTitle = DefaultDocumentTitle
    /\ today \in Dates
    /\ clipboard = <<>>
    /\ writing = <<>>
    /\ timers = 0
    /\ toast = NoToast

EngineNext == ForecastEffect

EngineSpec == EngineInit /\ [][EngineNext]_vars

-----------------------------------------------------------------------------
(* Vocabulary of the properties *)

\* The forecast effect of the current render has run.
Computed == "forecast" \notin pending

\* The forecast effect has run and has published a series for the inputs.
Fresh == Computed /\ rendered = Live /\ ForecastRuns(rendered)

baseRevenueOf   == OrZero(parseFloat(monthlyRevenue))
baseExpensesOf  == OrZero(parseFloat(monthlyExpenses))
initialAmountOf == OrZero(parseFloat(startingAmount))

\* b to the power k, by repeated squaring.
RECURSIVE Power(_, _)
Power(b, k) ==
    IF k = 0 THEN 1
    ELSE LET half == Power(b, k \div 2)
         IN  IF k % 2 = 0 THEN half * half ELSE half * half * b

ZeroAPR(apr) == apr \in {<<>>, <<"0">>}

\* Points of forecastData, by their position.
Points == 1..Len(forecastData)

\* Position of the earliest point that is at or below zero / at or above zero.
Earliest(hits) == CHOOSE i \in hits : \A j \in hits : i <= j

AtOrBelowZero == { i \in Points : forecastData[i].netWorth <= 0 }

AtOrAboveZero == { i \in Points : forecastData[i].netWorth >= 0 }

-----------------------------------------------------------------------------
(* C1 - C10 *)

\* The number of points the claim gives for each period.
PointsOfPeriod ==
    { <<<<"3", "m">>, 4>>,
      <<<<"6", "m">>, 7>>,
      <<<<"1", "y", "r">>, 13>>,
      <<<<"3", "y", "r">>, 37>>,
      <<<<"5", "y", "r">>, 61>>,
      <<<<"1", "0", "y", "r">>, 121>>,
      <<<<"2", "5", "y", "r">>, 301>>,
      <<<<"5", "0", "y", "r">>, 601>>,
      <<<<"1", "0", "0", "y", "r">>, 1201>> }

\* C1: a forecast computed from non-empty monthlyRevenue and monthlyExpenses
\* and an enumerated period has exactly horizonMonths + 1 points (4, 7, 13,
\* 37, 61, 121, 301, 601, 1201), and the point at position i has month = i.
C1_SeriesLength ==
    Fresh =>
        /\ Len(forecastData) = FindPeriod(selectedPeriod).months + 1
        /\ <<selectedPeriod, Len(forecastData)>> \in PointsOfPeriod
        /\ \A i \in Points : forecastData[i].month = i - 1

C1_Witness ==
    /\ Fresh
    /\ selectedPeriod = <<"1", "0", "0", "y", "r">>
    /\ Len(forecastData) = 1201
    /\ forecastData[1201].month = 1200

\* C2: whenever monthlyRevenue or monthlyExpenses is empty, the published
\* series is empty and the placeholder is shown, also after a forecast was
\* displayed and the field was then cleared.
C2_EmptyWhenFieldMissing ==
    (Idle /\ (monthlyRevenue = <<>> \/ monthlyExpenses = <<>>))
        => (forecastData = <<>> /\ PlaceholderShown)

\* The projection of an input snapshot: empty when a required field is
\* missing or the period is unknown, the computed series otherwise.
Projection(r, now) == IF ForecastRuns(r) THEN Forecast(r, now) ELSE <<>>

\* C3: once the forecast effect has run after any change of an input, the
\* published series is the projection of the current input snapshot.
C3_RecomputedInFull ==
    Idle => forecastData = Projection(Live, today)

\* C4: every point of a freshly computed series has profit = cumulative
\* revenue - cumulative expenses and netWorth = startingAmount + profit, and
\* stores the cumulative expenses negated, so revenue + expenses = profit.
C4_PointArithmetic ==
    Fresh =>
        \A i \in Points :
            LET p        == forecastData[i]
                before   == IF i = 1 THEN 0
                            ELSE 0 - forecastData[i - 1].expenses
                spent    == baseExpensesOf
                              * Power(1 + MonthlyRate(expenseAPR), i - 1)
                cumulativeExpenses == before + spent
            IN  /\ p.expenses = 0 - cumulativeExpenses
                /\ p.profit = p.revenue - cumulativeExpenses
                /\ p.revenue + p.expenses = p.profit
                /\ p.netWorth = initialAmountOf + p.profit

C4_Witness ==
    /\ Fresh
    /\ initialAmountOf = 10000
    /\ \E i \in Points :
          /\ forecastData[i].expenses < 0
          /\ forecastData[i].profit < 0
          /\ forecastData[i].netWorth > 0

\* C5: the point of month 0 carries the unmodified base figures whatever the
\* APRs are, and the amount accrued in month m >= 1 is
\* base * (1 + monthlyRate)^m, so the cumulative figure of month m is the sum
\* of base * (1 + monthlyRate)^k for k = 0..m.
C5_CompoundingFromMonthOne ==
    Fresh =>
        /\ forecastData[1].revenue = baseRevenueOf
        /\ forecastData[1].expenses = 0 - baseExpensesOf
        /\ \A i \in Points \ {1} :
              /\ forecastData[i].revenue - forecastData[i - 1].revenue
                    = baseRevenueOf * Power(1 + MonthlyRate(revenueAPR), i - 1)
              /\ forecastData[i - 1].expenses - forecastData[i].expenses
                    = baseExpensesOf * Power(1 + MonthlyRate(expenseAPR), i - 1)

C5_Witness ==
    /\ Fresh
    /\ MonthlyRate(revenueAPR) = 1
    /\ baseRevenueOf = 100
    /\ Len(forecastData) = 13
    /\ forecastData[1].revenue = 100
    /\ forecastData[2].revenue = 300
    /\ forecastData[13].revenue = 819100

\* C6: with both APRs 0 or empty, month m has cumulative revenue
\* (m+1) * monthlyRevenue, cumulative expenses (m+1) * monthlyExpenses and
\* profit (m+1) * (monthlyRevenue - monthlyExpenses); revenue 5000 and
\* expenses 3000 over 3 months give profits 2000, 4000, 6000, 8000.
C6_ZeroAPRLinear ==
    (Fresh /\ ZeroAPR(revenueAPR) /\ ZeroAPR(expenseAPR)) =>
        /\ \A i \in Points :
              /\ forecastData[i].revenue = i * baseRevenueOf
              /\ 0 - forecastData[i].expenses = i * baseExpensesOf
              /\ forecastData[i].profit = i * (baseRevenueOf - baseExpensesOf)
        /\ (/\ monthlyRevenue = <<"5", "0", "0", "0">>
            /\ monthlyExpenses = <<"3", "0", "0", "0">>
            /\ selectedPeriod = <<"3", "m">>)
              => [i \in Points |-> forecastData[i].profit]
                    = <<2000, 4000, 6000, 8000>>

C6_Witness ==
    /\ Fresh
    /\ revenueAPR = <<"0">>
    /\ expenseAPR = <<>>
    /\ monthlyRevenue = <<"5", "0", "0", "0">>
    /\ monthlyExpenses = <<"3", "0", "0", "0">>
    /\ selectedPeriod = <<"3", "m">>
    /\ forecastData[4].profit = 8000

\* The outcome the claim assigns to a trend and a starting amount.
ClassOf(rising, start) ==
    IF rising
    THEN (IF start >= 0 THEN "positive" ELSE "breakEven")
    ELSE (IF start <= 0 THEN "negative" ELSE "runwayEnded")

\* C7: the milestone is decided by whether the last point's netWorth exceeds
\* startingAmount and by the sign of startingAmount: rising from start >= 0 is
\* 'positive' without a date, rising from start < 0 is 'breakEven', not
\* rising from start <= 0 is 'negative' without a date, not rising from
\* start > 0 is 'runwayEnded'; start 0, revenue 100, expenses 50 is 'positive'.
C7_Classification ==
    Fresh =>
        LET last == forecastData[Len(forecastData)].netWorth
        IN  /\ milestoneInfo.type
                  = ClassOf(last > initialAmountOf, initialAmountOf)
            /\ milestoneInfo.type \in {"positive", "negative"}
                  => milestoneInfo.date = NoDate
            /\ (/\ startingAmount = <<"0">>
                /\ monthlyRevenue = <<"1", "0", "0">>
                /\ monthlyExpenses = <<"5", "0">>
                /\ ZeroAPR(revenueAPR) /\ ZeroAPR(expenseAPR))
                  => milestoneInfo = [type |-> "positive", date |-> NoDate]

C7_Witness ==
    /\ Fresh
    /\ initialAmountOf > 0
    /\ forecastData[Len(forecastData)].netWorth = initialAmountOf
    /\ milestoneInfo.type = "runwayEnded"

\* C8: a 'runwayEnded' result carries the label of the earliest point with
\* netWorth <= 0, and no label exactly when no point has netWorth <= 0; with
\* zero APRs and expenses above revenue that point is the smallest month m
\* with startingAmount - (m+1) * (expenses - revenue) <= 0 (month 2 for
\* 10000, 1000, 5000 over one year).
C8_RunwayEarliest ==
    (Fresh /\ milestoneInfo.type = "runwayEnded") =>
        /\ (milestoneInfo.date = NoDate) <=> (AtOrBelowZero = {})
        /\ AtOrBelowZero # {}
              => milestoneInfo.date = forecastData[Earliest(AtOrBelowZero)].date
        /\ (/\ ZeroAPR(revenueAPR) /\ ZeroAPR(expenseAPR)
            /\ baseExpensesOf > baseRevenueOf
            /\ AtOrBelowZero # {})
              => LET m    == forecastData[Earliest(AtOrBelowZero)].month
                     burn == baseExpensesOf - baseRevenueOf
                 IN  /\ initialAmountOf - (m + 1) * burn <= 0
                     /\ \A k \in 0..(m - 1) :
                           initialAmountOf - (k + 1) * burn > 0
        /\ (/\ startingAmount = <<"1", "0", "0", "0", "0">>
            /\ monthlyRevenue = <<"1", "0", "0", "0">>
            /\ monthlyExpenses = <<"5", "0", "0", "0">>
            /\ ZeroAPR(revenueAPR) /\ ZeroAPR(expenseAPR)
            /\ selectedPeriod = <<"1", "y", "r">>)
              => (Earliest(AtOrBelowZero) = 3
                    /\ milestoneInfo.date = forecastData[3].date)

C8_Witness ==
    /\ Fresh
    /\ milestoneInfo.type = "runwayEnded"
    /\ startingAmount = <<"1", "0", "0", "0", "0">>
    /\ monthlyRevenue = <<"1", "0", "0", "0">>
    /\ monthlyExpenses = <<"5", "0", "0", "0">>
    /\ selectedPeriod = <<"1", "y", "r">>
    /\ milestoneInfo.date = forecastData[3].date
    /\ forecastData[2].netWorth > 0
    /\ forecastData[3].netWorth <= 0

\* C9: a 'breakEven' result carries the label of the earliest point with
\* netWorth >= 0, and no label exactly when every point has netWorth < 0.
C9_BreakEvenEarliest ==
    (Fresh /\ milestoneInfo.type = "breakEven") =>
        /\ (milestoneInfo.date = NoDate)
              <=> (\A i \in Points : forecastData[i].netWorth < 0)
        /\ AtOrAboveZero # {}
              => milestoneInfo.date = forecastData[Earliest(AtOrAboveZero)].date

C9_Witness ==
    /\ Fresh
    /\ milestoneInfo.type = "breakEven"
    /\ milestoneInfo.date # NoDate
    /\ Earliest(AtOrAboveZero) = 10
    /\ forecastData[10].netWorth = 0
    /\ forecastData[9].netWorth < 0

\* C10 as stated: whenever the result is 'positive', no point of the series
\* has netWorth < 0.
C10_NeverInDeficit ==
    (Fresh /\ milestoneInfo.type = "positive")
        => \A i \in Points : forecastData[i].netWorth >= 0

\* C10, amended: whenever the result is 'positive', the starting amount is
\* not negative and the last point's netWorth exceeds it, so the projection
\* does not end in deficit; with both APRs zero no point has netWorth < 0.
C10_EndsAboveStart ==
    (Fresh /\ milestoneInfo.type = "positive") =>
        /\ initialAmountOf >= 0
        /\ forecastData[Len(forecastData)].netWorth > initialAmountOf
        /\ (ZeroAPR(revenueAPR) /\ ZeroAPR(expenseAPR))
              => \A i \in Points : forecastData[i].netWorth >= 0

C10_Witness ==
    /\ Fresh
    /\ milestoneInfo.type = "positive"
    /\ forecastData[1].netWorth < 0
    /\ forecastData[Len(forecastData)].netWorth > 0

-----------------------------------------------------------------------------
(* C11 - C20 *)

\* Net worth of the last point of the published series.
LastNetWorth == forecastData[Len(forecastData)].netWorth

\* C11: a series whose last netWorth equals startingAmount is never
\* 'positive' or 'breakEven': it is 'negative' when startingAmount <= 0 and
\* 'runwayEnded' otherwise, without a date when no point has netWorth <= 0.
C11_FlatIsNegativeBranch ==
    (Fresh /\ LastNetWorth = initialAmountOf) =>
        /\ milestoneInfo.type \notin {"positive", "breakEven"}
        /\ milestoneInfo.type =
              IF initialAmountOf <= 0 THEN "negative" ELSE "runwayEnded"
        /\ (milestoneInfo.type = "runwayEnded" /\ AtOrBelowZero = {})
              => milestoneInfo.date = NoDate

C11_Witness ==
    /\ Fresh
    /\ baseRevenueOf = 5000
    /\ baseExpensesOf = 5000
    /\ ZeroAPR(revenueAPR) /\ ZeroAPR(expenseAPR)
    /\ initialAmountOf = 10000
    /\ LastNetWorth = initialAmountOf
    /\ milestoneInfo = [type |-> "runwayEnded", date |-> NoDate]

\* C12: the milestone result is null exactly when the series is empty; for a
\* non-empty series it is one of 'positive', 'breakEven', 'negative' and
\* 'runwayEnded', and only 'breakEven' and 'runwayEnded' carry a date.
C12_NullIffEmpty ==
    /\ (milestoneInfo = NoMilestone) <=> (Len(forecastData) = 0)
    /\ (milestoneInfo.type = "null") <=> (Len(forecastData) = 0)
    /\ Len(forecastData) > 0
          => milestoneInfo.type
                \in {"positive", "breakEven", "negative", "runwayEnded"}
    /\ milestoneInfo.date # NoDate
          => milestoneInfo.type \in {"breakEven", "runwayEnded"}

C12_Witness ==
    /\ Computed
    /\ Len(forecastData) > 0
    /\ milestoneInfo.type = "breakEven"
    /\ milestoneInfo.date # NoDate
    /\ AtOrBelowZero # {}

\* A step of the load effect, of the write-back effect and of the forecast
\* effect: the effect is the next to run and has run after the step.
LoadStep     == IsNext("load") /\ "load" \notin pending'
WriteStep    == IsNext("write") /\ "write" \notin pending'
ForecastStep == IsNext("forecast") /\ "forecast" \notin pending'

\* C13: when the URL has income = v and no revenue, the load effect sets
\* monthlyRevenue to v and leaves the state, and so the forecast, that
\* revenue = v would have left; when both are present, revenue is taken.
C13_IncomeAlias ==
    [][LoadStep =>
          LET p         == rendered.searchParams
              asRevenue == [p EXCEPT !.revenue = p.income, !.income = <<>>]
          IN  /\ (p.revenue = <<>> /\ p.income # <<>>)
                    => /\ monthlyRevenue' = p.income
                       /\ Live' = Loaded(Live, asRevenue)
                       /\ Projection(Live', today)
                            = Projection(Loaded(Live, asRevenue), today)
              /\ (p.revenue # <<>> /\ p.income # <<>>)
                    => monthlyRevenue' = p.revenue]_vars

C13_Witness ==
    /\ searchParams.revenue = <<>>
    /\ searchParams.income = <<"5">>
    /\ rendered.searchParams = searchParams
    /\ "load" \notin pending
    /\ monthlyRevenue = <<"5">>
    /\ Idle
    /\ Len(forecastData) = 13

\* A text that is present but that parseFloat cannot read, and the text "0"
\* in its place.
Unparseable(text) == text # <<>> /\ parseFloat(text).isNaN

Cleaned(text) == IF Unparseable(text) THEN <<"0">> ELSE text

SomeUnparseable ==
    \/ Unparseable(startingAmount)
    \/ Unparseable(monthlyRevenue)
    \/ Unparseable(monthlyExpenses)
    \/ Unparseable(revenueAPR)
    \/ Unparseable(expenseAPR)

\* C14: an unparseable text in startingAmount, monthlyRevenue,
\* monthlyExpenses, revenueAPR or expenseAPR counts as 0: with both required
\* fields non-empty the series still has horizonMonths + 1 points and is the
\* series computed with "0" in place of each unparseable text.
C14_UnparseableIsZero ==
    (Fresh /\ SomeUnparseable) =>
        /\ Len(forecastData) = FindPeriod(selectedPeriod).months + 1
        /\ forecastData =
              Forecast([rendered EXCEPT
                          !.startingAmount  = Cleaned(@),
                          !.monthlyRevenue  = Cleaned(@),
                          !.monthlyExpenses = Cleaned(@),
                          !.revenueAPR      = Cleaned(@),
                          !.expenseAPR      = Cleaned(@)], today)
        /\ Unparseable(startingAmount)
              => \A i \in Points :
                    forecastData[i].netWorth = forecastData[i].profit
        /\ Unparseable(revenueAPR)
              => \A i \in Points : forecastData[i].revenue = i * baseRevenueOf
        /\ Unparseable(expenseAPR)
              => \A i \in Points :
                    forecastData[i].expenses = 0 - i * baseExpensesOf

C14_Witness ==
    /\ Fresh
    /\ Unparseable(startingAmount)
    /\ Unparseable(monthlyRevenue)
    /\ Unparseable(monthlyExpenses)
    /\ Unparseable(revenueAPR)
    /\ Unparseable(expenseAPR)
    /\ Len(forecastData) = 1201
    /\ forecastData[1201].netWorth = 0

RequiredUnparseable ==
    Unparseable(monthlyRevenue) \/ Unparseable(monthlyExpenses)

C16_PeriodEnumerated ==
    /\ selectedPeriod \in PeriodKeys
    /\ (Idle /\ monthlyRevenue # <<>> /\ monthlyExpenses # <<>>)
          => (FindPeriod(selectedPeriod) # NoPeriod /\ Len(forecastData) > 0)

KeysOf(href) ==
    LET pieces == PiecesOf(href)
    IN  { pieces[i][1] : i \in { j \in 1..Len(pieces) : pieces[j] # <<>> } }

\* The seven inputs of a state record, in the order of the URL keys.
SevenFields(s) ==
    <<s.title, s.startingAmount, s.monthlyRevenue, s.monthlyExpenses,
      s.revenueAPR, s.expenseAPR, s.selectedPeriod>>

SevenKeys == SubSeq(KeyOrder, 1, 7)

C19_LoadNeverOverwrites ==
    [][LoadStep => UNCHANGED inputs]_vars

\* C20: a run of the forecast effect changes nothing but forecastData: it
\* leaves title, startingAmount, monthlyRevenue, monthlyExpenses, revenueAPR,
\* expenseAPR, selectedPeriod, isSharedView, isCopied and the URL (the current
\* query and the addresses in flight) as they are.
C20_ForecastWritesOnlySeries ==
    [][ForecastStep =>
          UNCHANGED <<inputs, isSharedView, isCopied, searchParams,
                      navigation>>]_vars

C20_Witness ==
    /\ Computed
    /\ rendered = Live
    /\ isSharedView
    /\ title = <<"P", "l", "a", "n">>
    /\ Unparseable(monthlyRevenue)
    /\ Len(forecastData) = 13
    /\ forecastData[13].netWorth = -39

-----------------------------------------------------------------------------
(* C21 - C29 *)

\* A series with one point for each of the months 0 .. months of one of the
\* enumerated periods.
CompleteSeries(data) ==
    /\ \E i \in 1..Len(TIME_PERIODS) : Len(data) = TIME_PERIODS[i].months + 1
    /\ \A j \in 1..Len(data) : data[j].month = j - 1

\* C21: in every reachable state forecastData is empty or a complete series
\* of months + 1 points for one of the enumerated periods; a series with
\* fewer points than the period it was computed for is never on display.
C21_PublishedWhole ==
    /\ forecastData = <<>> \/ CompleteSeries(forecastData)
    /\ (Computed /\ rendered = Live /\ ForecastRuns(rendered))
          => Len(forecastData) = FindPeriod(selectedPeriod).months + 1

C21_Witness ==
    /\ Idle
    /\ selectedPeriod = <<"6", "m">>
    /\ ForecastRuns(rendered)
    /\ Len(forecastData) = 7
    /\ forecastData[7].month = 6

\* The numbers of a series: its points without their date labels.
Numeric(data) ==
    [i \in 1..Len(data) |->
        [month    |-> data[i].month,
         revenue  |-> data[i].revenue,
         expenses |-> data[i].expenses,
         profit   |-> data[i].profit,
         netWorth |-> data[i].netWorth]]

\* The six inputs of the forecast, and nothing else of the state.
SixInputs(r) ==
    [startingAmount  |-> r.startingAmount,
     monthlyRevenue  |-> r.monthlyRevenue,
     monthlyExpenses |-> r.monthlyExpenses,
     revenueAPR      |-> r.revenueAPR,
     expenseAPR      |-> r.expenseAPR,
     selectedPeriod  |-> r.selectedPeriod]

\* C22: the numbers of a published series are a function of startingAmount,
\* monthlyRevenue, monthlyExpenses, revenueAPR, expenseAPR and the period
\* alone: each run of the forecast effect publishes the numbers that these
\* six inputs give on any date, whatever was entered or displayed before.
C22_Deterministic ==
    [][(ForecastStep /\ ForecastRuns(rendered)) =>
          \A published \in {Numeric(forecastData')} :
          \A six \in {SixInputs(rendered)} :
          \A d \in Dates : published = Numeric(Forecast(six, d))]_vars

C22_Witness ==
    /\ Idle
    /\ title # <<>>
    /\ startingAmount = <<"-", "9">>
    /\ monthlyRevenue = <<"5">>
    /\ monthlyExpenses = <<"7">>
    /\ selectedPeriod = <<"3", "m">>
    /\ Len(forecastData) = 4
    /\ forecastData[4].netWorth = -17

\* The calendar month m months after the month of the date now.
MonthAfter(now, m) ==
    [year  |-> now.year + ((now.month + m) \div 12),
     month |-> (now.month + m) % 12]

\* C23: whatever the date of the computation, the point of month m is
\* labelled with the calendar month m months after the current one, so that
\* consecutive points carry consecutive calendar months and no two points of
\* a series share a label.
C23_LabelsFollowCalendar ==
    Fresh =>
        /\ \A i \in Points : forecastData[i].date = MonthAfter(today, i - 1)
        /\ \A i \in Points :
              i > 1 => forecastData[i].date
                          = MonthAfter(forecastData[i - 1].date, 1)

\* The number of passes the loop has made when it is left: month counts
\* them, from 0.
Passes(r, now) == LoopRun(r, now).month

RanForecast == Computed /\ rendered = Live /\ ForecastRuns(rendered)

\* C24 as stated: the projection loop ends for every enumerated period and
\* makes at most 1200 passes.
C24_AtMost1200Passes ==
    RanForecast =>
        \A passes \in {Passes(rendered, today)} :
            /\ passes > FindPeriod(selectedPeriod).months
            /\ passes <= 1200

\* C24: the projection loop ends for every enumerated period after exactly
\* months + 1 passes, one for each point, which is at most 1201 passes.
C24_AtMost1201Passes ==
    RanForecast =>
        \A passes \in {Passes(rendered, today)} :
            /\ passes = FindPeriod(selectedPeriod).months + 1
            /\ passes = Len(forecastData)
            /\ passes <= 1201
            /\ passes < MaxPasses

C24_Witness ==
    /\ RanForecast
    /\ selectedPeriod = <<"1", "0", "0", "y", "r">>
    /\ Passes(rendered, today) = 1201
    /\ forecastData[1201].month = 1200

\* C25: once an input has left its default, no run of the load effect puts
\* the default back: the address written on mount from the default state does
\* not undo what was loaded from the address the page was opened on.
C25_NoRevertToDefault ==
    [][LoadStep =>
          \A k \in 1..7 :
              SevenFields(Live)[k] # SevenFields(FreshSession)[k]
                  => SevenFields(Live')[k] # SevenFields(FreshSession)[k]]_vars

\* A clipboard write of handleShare settles; it succeeded when the success
\* toast is raised.
WriteSettles == writing # <<>> /\ writing' = Tail(writing)

IsTrue == <<"t", "r", "u", "e">>

\* C26: when the clipboard write of handleShare succeeds, the URL copied and
\* the URL pushed carry every non-empty input with its value plus shared=true,
\* isCopied becomes true and a timer is set; the timer puts isCopied back to
\* false; the load effect that reads the pushed URL enters shared view.  When
\* the write fails only the error toast is raised: nothing is pushed and
\* isCopied, isSharedView, the URL, the clipboard and the inputs stay as they
\* are.  Either way the inputs and forecastData are unchanged.
C26_ShareCopiesAndPushes ==
    [][/\ (WriteSettles /\ toast' = CopiedToast) =>
             \A href \in {navigation'[Len(navigation')]} :
             \A p \in {SearchParamsOf(href)} :
                 LET fields == SevenFields(Live)
                 IN  /\ navigation' = Append(navigation, href)
                     /\ clipboard' = Location \o href
                     /\ KeysOf(href) =
                           { SevenKeys[k] : k \in { n \in 1..7 :
                                                      fields[n] # <<>> } }
                              \cup {"shared"}
                     /\ <<p.title, p.startingAmount, p.revenue, p.expenses,
                           p.revenueAPR, p.expenseAPR, p.period>> = fields
                     /\ p.shared = IsTrue
                     /\ Loaded(FreshSession, p).isSharedView
                     /\ SevenFields(Loaded(FreshSession, p)) = fields
                     /\ isCopied'
                     /\ timers' = timers + 1
                     /\ UNCHANGED <<inputs, forecastData, isSharedView,
                                    searchParams>>
       /\ (WriteSettles /\ toast' # CopiedToast) =>
             /\ toast' = FailedToast
             /\ UNCHANGED <<inputs, forecastData, isCopied, isSharedView,
                            searchParams, navigation, clipboard, timers>>
       /\ timers' < timers => ~isCopied' /\ UNCHANGED <<inputs, forecastData>>
       /\ (LoadStep /\ rendered.searchParams.shared = IsTrue) =>
             isSharedView' /\ UNCHANGED forecastData]_vars

\* A Share has succeeded, its URL has landed and its timer has fired.
C26_Witness ==
    /\ Idle
    /\ navigation = <<>>
    /\ toast = CopiedToast
    /\ timers = 0
    /\ ~isCopied
    /\ isSharedView
    /\ title = <<"R", "&", "D", " ", "+", "5", "%", "=", "?">>
    /\ searchParams = ShareParams(Live)
    /\ clipboard = ShareUrl(searchParams)
    /\ ChartShown

\* The step of handleEdit: the only push of a URL without shared that is
\* made from a settled page.
EditStep ==
    /\ Idle
    /\ Len(navigation') = Len(navigation) + 1
    /\ "shared" \notin KeysOf(navigation'[Len(navigation')])

\* C27: handleEdit leaves the inputs and forecastData as they are, sets
\* isSharedView to false and pushes the inputs in a URL without shared.
\* isSharedView becomes true only in a run of the load effect on a URL with
\* shared=true, and becomes false only in handleEdit: a run of the load effect
\* on a URL without shared does not clear it.
C27_EditLeavesSharedView ==
    [][/\ EditStep =>
             \A href \in {navigation'[Len(navigation')]} :
             \A p \in {SearchParamsOf(href)} :
                 /\ isSharedView /\ ~isSharedView'
                 /\ navigation' = Append(navigation, href)
                 /\ <<p.title, p.startingAmount, p.revenue, p.expenses,
                       p.revenueAPR, p.expenseAPR, p.period>>
                       = SevenFields(Live)
                 /\ UNCHANGED <<inputs, forecastData, searchParams>>
       /\ (isSharedView /\ ~isSharedView') => EditStep
       /\ (~isSharedView /\ isSharedView') =>
             LoadStep /\ rendered.searchParams.shared = IsTrue
       /\ (LoadStep /\ isSharedView) => isSharedView']_vars

\* A page opened from the link titled Plan, after Edit and the landing of
\* the URL it pushed.
C27_Witness ==
    /\ Idle
    /\ navigation = <<>>
    /\ ~isSharedView
    /\ title = <<"P", "l", "a", "n">>
    /\ searchParams = BuildParams(Live)
    /\ ChartShown

\* Nothing is scheduled, in flight or waiting: the page is at rest.
Settled == Idle /\ navigation = <<>> /\ writing = <<>>

\* C28: in every settled state in shared view the URL carries shared=true.
C28_SharedViewInURL ==
    (Settled /\ isSharedView) => searchParams.shared = IsTrue

TitleStep == IsNext("title") /\ "title" \notin pending'

\* C29: a run of the document-title effect sets the document title to
\* 'Financial Forecasting Lab' when the page is not in shared view, to the
\* title when it is in shared view with a non-empty title, and leaves it as it
\* was when it is in shared view with an empty title.  So whenever the page
\* waits for the next event the document title is the default outside shared
\* view, in particular after Edit, and the title in shared view with a title.
C29_DocumentTitle ==
    [][/\ TitleStep =>
             /\ ~rendered.isSharedView
                   => documentTitle' = DefaultDocumentTitle
             /\ (rendered.isSharedView /\ rendered.title # <<>>)
                   => documentTitle' = rendered.title
             /\ (rendered.isSharedView /\ rendered.title = <<>>)
                   => documentTitle' = documentTitle
       /\ (Idle => /\ ~isSharedView => documentTitle = DefaultDocumentTitle
                   /\ (isSharedView /\ title # <<>>)
                         => documentTitle = title)']_vars

\* The link titled Plan was opened, which made Plan the document title, and
\* Edit has put the default back.
C29_Witness ==
    /\ Idle
    /\ ~isSharedView
    /\ title = <<"P", "l", "a", "n">>
    /\ documentTitle = DefaultDocumentTitle
    /\ toast = NoToast
    /\ navigation # <<>>

====
